---- MODULE Spec2Model ----
(***************************************************************************)
(* Watchtower task coordination of the smartnode: the rewards-tree task    *)
(* (SubmitRewardsTree_Stateless) and the RPL price task (SubmitRplPrice).  *)
(*                                                                         *)
(* A task's Run is invoked by the scheduler; several invocations may be in *)
(* flight (Calls).  Each invocation is cut at the points where the code    *)
(* takes or releases t.lock, starts a goroutine, or waits for a            *)
(* transaction, so that every interleaving the Go scheduler allows is a    *)
(* behaviour of the model.                                                 *)
(*                                                                         *)
(* Assumption: the service fields t.cfg, t.ec, t.bc, t.w and t.rp are      *)
(* taken to be usable when Run reads them (the constructors in the source  *)
(* leave them unset, and Run only assigns them after the running check).   *)
(***************************************************************************)
EXTENDS Integers, FiniteSets, Sequences, TLC

\* ------------------------------------------------------------------------
\* Bounds of the model
\* ------------------------------------------------------------------------

\* Number of Run invocations of one task the scheduler may have in flight.
MaxCalls == 2

\* Width of the model's uint64: unsigned values are kept modulo 2^UintBits.
UintBits == 4

\* Slot of the Beacon chain head: no slot after it has a block.
MaxSlot == 5

Calls == 1..MaxCalls

Two64 == 2 ^ UintBits

Tasks == {"rewards", "price"}

\* The Beacon chain parameters of state.BeaconConfig.
BeaconConfig == [GenesisTime |-> 1, SecondsPerSlot |-> 2, SlotsPerEpoch |-> 2]

Slots == 0..MaxSlot

Epochs == 0..((MaxSlot \div BeaconConfig.SlotsPerEpoch) + 1)

\* Values of NetworkDetails.IntervalStart and IntervalDuration (in seconds).
IntervalStarts == {2, 9}

IntervalDurations == {-2, 0, 2}

\* Values of NetworkDetails.RewardIndex.
RewardIndices == {0, 1}

VARIABLES
    scope,        \* "narrow", "wide", "cache", "relay" or "gate": which inputs the
                  \* scheduler passes to Run ("timestamp": none, the
                  \* behaviour is one call of FindNextSubmissionTimestamp)
    task,         \* the task the scheduler drives in this behaviour
    calls,        \* the invocation slots the scheduler uses
    crashed,      \* the process died of a runtime panic
    bcFinalized,  \* beaconHead.FinalizedEpoch as reported by t.bc.GetBeaconHead
    bcBlocks,     \* the slots for which t.bc.GetBeaconBlock reports a block
    isRunning,    \* t.isRunning, per task
    lock,         \* holder of t.lock, per task (Free when unlocked)
    pc,           \* position of each Run invocation
    bg,           \* position of the goroutine started by each invocation
    st,           \* the arguments of the invocation (state, nodeTrusted)
    loc,          \* the invocation's local variables after the checkpoint
    ret,          \* what the last Run of the slot returned
    finishes,     \* number of times the invocation cleared the running flag
    file,         \* the rewards tree file on disk, per reward index
    ledger,       \* reward indices this node's submission is recorded for
    ticked,       \* the wide scope's single Run invocation has been made
    messengers,   \* the relay targets with a configured messenger address
    prices,       \* the price submission flags recorded for this node
    relay,        \* the relay transactions of each invocation's relay pass
    pendingAtStop, \* the reward indices whose file was on disk, unsubmitted,
                  \* when the process last stopped (kept in the cache scope)
    effects,      \* the generation passes, uploads and submission attempts of
                  \* each invocation, in order
    submission    \* a call of FindNextSubmissionTimestamp: its arguments and,
                  \* once it returned, its results

vars == <<scope, task, calls, ticked, messengers, crashed, bcFinalized, bcBlocks,
          isRunning, lock, pc, bg, st, loc, ret, finishes, file, ledger, prices, relay,
          pendingAtStop, effects, submission>>

Free == <<"free", 0>>

NoState == [none |-> TRUE]

NoLoc == [none |-> TRUE]

NoRet == [err |-> FALSE, at |-> "none"]

NoSubmission ==
    [latestBlockTimestamp |-> 0, referenceTimestamp |-> 0,
     submissionIntervalInSeconds |-> 0, returned |-> FALSE, err |-> FALSE, result |-> 0]

Nil(at) == [err |-> FALSE, at |-> at]

Err(at) == [err |-> TRUE, at |-> at]

\* ------------------------------------------------------------------------
\* Arithmetic as the Go code computes it
\* ------------------------------------------------------------------------

Abs(x) == IF x < 0 THEN -x ELSE x

\* Go's integer division truncates toward zero (b # 0).
GoDiv(a, b) ==
    IF (a < 0) = (b < 0) THEN Abs(a) \div Abs(b) ELSE -(Abs(a) \div Abs(b))

\* Conversion of a signed integer to uint64 (two's complement wrap).
ToUint64(x) == x % Two64

\* math.Ceil(a / b) for b > 0.
CeilDiv(a, b) == -((-a) \div b)

\* uint64(f) of a float64 f with integral value v: a negative v is not
\* representable and the result depends on the build (wrap through int64
\* on amd64, saturation to 0 on arm64).
FloatToUint64(v) == IF v >= 0 THEN {v % Two64} ELSE {v % Two64, 0}

\* ------------------------------------------------------------------------
\* Rewards task: checkpoint detection (Run, lines 90-103)
\* ------------------------------------------------------------------------

\* stateTime := genesisTime.Add(SecondsPerSlot * BeaconSlotNumber seconds)
StateTime(s) ==
    BeaconConfig.GenesisTime + BeaconConfig.SecondsPerSlot * s.BeaconSlotNumber

\* intervalsPassed := timeSinceStart / intervalTime  (IntervalDuration # 0)
IntervalsPassed(s) ==
    GoDiv(StateTime(s) - s.IntervalStart, s.IntervalDuration)

\* The end time of the first elapsed interval alone.
EndTimeOneInterval(s) == s.IntervalStart + s.IntervalDuration

\* endTime := startTime.Add(intervalTime * intervalsPassed)
EndTime(s) == s.IntervalStart + s.IntervalDuration * IntervalsPassed(s)

\* ------------------------------------------------------------------------
\* Rewards task: snapshot resolution (getSnapshotConsensusBlock)
\* ------------------------------------------------------------------------

\* ExecutionBlockNumber of the Beacon block at a slot: execution blocks are
\* numbered consecutively along the proposed slots.
ExecutionBlockNumber(slot, blocks) == Cardinality({b \in blocks : b <= slot})

\* The loop of lines 522-537: try targetSlot, on a missing block decrement
\* (uint64, so 0 wraps) and try again.  n bounds the slots still to visit;
\* after Two64 misses the walk has visited every uint64 and never ends.
RECURSIVE WalkBack(_, _, _)
WalkBack(targetSlot, blocks, n) ==
    IF targetSlot \in blocks
    THEN [kind |-> "resolved", slot |-> targetSlot,
          el |-> ExecutionBlockNumber(targetSlot, blocks)]
    ELSE IF n = 0
         THEN [kind |-> "forever", slot |-> 0, el |-> 0]
         ELSE WalkBack((targetSlot - 1) % Two64, blocks, n - 1)

\* Lines 507-514, for the value targetSlot got from the uint64 conversion.
TargetSlotEpoch(targetSlot) == targetSlot \div BeaconConfig.SlotsPerEpoch

LastSlotOfEpoch(epoch) ==
    (epoch * BeaconConfig.SlotsPerEpoch + (BeaconConfig.SlotsPerEpoch - 1)) % Two64

\* The required epoch without the epoch of margin.
RequiredEpochNoMargin(targetSlot) == TargetSlotEpoch(targetSlot)

\* Line 514: requiredEpoch := targetSlotEpoch + 1
RequiredEpoch(targetSlot) == TargetSlotEpoch(targetSlot) + 1

\* The values math.Ceil(...) converted to uint64 can take (line 511).
TargetSlots(endTime) ==
    FloatToUint64(CeilDiv(endTime - BeaconConfig.GenesisTime,
                          BeaconConfig.SecondsPerSlot))

getSnapshotConsensusBlock(targetSlot, finalizedEpoch, blocks) ==
    IF finalizedEpoch < RequiredEpoch(targetSlot)
    THEN [kind |-> "waiting", slot |-> 0, el |-> 0]
    ELSE WalkBack(LastSlotOfEpoch(TargetSlotEpoch(targetSlot)), blocks, Two64)

\* ------------------------------------------------------------------------
\* Rewards task: the artifact on disk
\* ------------------------------------------------------------------------

Absent == [kind |-> "absent", IntervalsPassed |-> 0]

Corrupt == [kind |-> "corrupt", IntervalsPassed |-> 0]

RewardsFile(n) == [kind |-> "tree", IntervalsPassed |-> n]

\* isExistingFileValid with the os.Stat test inverted: no file is reused.
isExistingFileValidNever(f, intervalsPassed, readable) == FALSE

\* isExistingFileValid without the comparison of the interval counts.
isExistingFileValidAnyCount(f, intervalsPassed, readable) ==
    f.kind = "tree" /\ readable

\* isExistingFileValid: readable says whether os.ReadFile succeeded.
isExistingFileValid(f, intervalsPassed, readable) ==
    IF f.kind = "absent" THEN FALSE
    ELSE IF ~readable THEN FALSE
    ELSE IF f.kind = "corrupt" THEN FALSE
    ELSE f.IntervalsPassed = intervalsPassed

\* hasSubmittedTree: the flag rewards.snapshot.submitted.node for the index.
hasSubmittedTree(index) == index \in ledger

\* ------------------------------------------------------------------------
\* Inputs the scheduler passes to the rewards task
\* ------------------------------------------------------------------------

RewardsStatesWide ==
    {s \in [nodeTrusted : BOOLEAN, generateMode : BOOLEAN, BeaconSlotNumber : Slots,
             IntervalStart : IntervalStarts, IntervalDuration : IntervalDurations,
             RewardIndex : RewardIndices] :
        s.nodeTrusted => s.generateMode}

RewardsStatesNarrow ==
    {s \in RewardsStatesWide :
        /\ s.generateMode
        /\ s.BeaconSlotNumber = 2
        /\ s.IntervalStart = 2
        /\ s.IntervalDuration = 2
        /\ s.RewardIndex = 0}

\* Every slot and index, with the positive interval duration and the early
\* interval start.
RewardsStatesCache ==
    {s \in RewardsStatesWide : s.IntervalDuration > 0 /\ s.IntervalStart = 2}

RewardsStates ==
    IF scope = "wide" THEN RewardsStatesWide
    ELSE IF scope = "cache" THEN RewardsStatesCache
    ELSE RewardsStatesNarrow

\* ------------------------------------------------------------------------
\* Frame helpers
\* ------------------------------------------------------------------------

Return(t, c, r) ==
    /\ pc' = [pc EXCEPT ![t][c] = "idle"]
    /\ ret' = [ret EXCEPT ![t][c] = r]

Goto(t, c, p) == pc' = [pc EXCEPT ![t][c] = p]

BgGoto(t, c, p) == bg' = [bg EXCEPT ![t][c] = p]

Chain == <<scope, task, calls, messengers, bcFinalized, bcBlocks, submission>>

World == <<Chain, pendingAtStop>>

\* What no step of the rewards task after the scheduler's call changes.
Env == <<World, ticked, prices, relay>>

\* What no step of the price task after the scheduler's call changes.
PriceEnv == <<World, ticked, file, ledger>>

\* ------------------------------------------------------------------------
\* Rewards task: Run
\* ------------------------------------------------------------------------

\* The scheduler calls Run(nodeTrusted, state, beaconSlot).
RewardsTick(c) ==
    /\ ~crashed /\ task = "rewards" /\ c \in calls
    /\ pc["rewards"][c] = "idle" /\ bg["rewards"][c] = "none"
    /\ scope = "wide" => ~ticked
    /\ ticked' = (scope = "wide")
    /\ \E s \in RewardsStates : st' = [st EXCEPT !["rewards"][c] = s]
    /\ Goto("rewards", c, "entered")
    /\ ret' = [ret EXCEPT !["rewards"][c] = NoRet]
    /\ loc' = [loc EXCEPT !["rewards"][c] = NoLoc]
    /\ finishes' = [finishes EXCEPT !["rewards"][c] = 0]
    /\ effects' = [effects EXCEPT !["rewards"][c] = <<>>]
    /\ UNCHANGED <<World, crashed, isRunning, lock, bg, file, ledger, prices, relay>>

\* Run, lines 72-120: trusted check, checkpoint detection, snapshot
\* resolution and the execution header lookup.
RewardsCheckpoint(c) ==
    /\ ~crashed /\ pc["rewards"][c] = "entered"
    /\ LET s == st["rewards"][c] IN
       /\ st' = [st EXCEPT !["rewards"][c] = NoState]
       /\ UNCHANGED <<Env, effects, isRunning, lock, bg, finishes, file, ledger>>
       /\ IF ~s.nodeTrusted /\ ~s.generateMode
          THEN /\ Return("rewards", c, Nil("not-generating"))
               /\ UNCHANGED <<crashed, loc>>
          ELSE \/ \* t.m.GetStateForSlot fails (only called when not trusted)
                  /\ ~s.nodeTrusted
                  /\ Return("rewards", c, Err("state"))
                  /\ UNCHANGED <<crashed, loc>>
               \/ \* integer division by zero: runtime panic
                  /\ s.IntervalDuration = 0
                  /\ crashed' = TRUE
                  /\ UNCHANGED <<pc, ret, loc>>
               \/ /\ s.IntervalDuration # 0
                  /\ IntervalsPassed(s) = 0
                  /\ Return("rewards", c, Nil("no-checkpoint"))
                  /\ UNCHANGED <<crashed, loc>>
               \/ \* t.bc.GetBeaconHead fails
                  /\ s.IntervalDuration # 0
                  /\ IntervalsPassed(s) # 0
                  /\ Return("rewards", c, Err("head"))
                  /\ UNCHANGED <<crashed, loc>>
               \/ /\ s.IntervalDuration # 0
                  /\ IntervalsPassed(s) # 0
                  /\ \E targetSlot \in TargetSlots(EndTime(s)) :
                       LET r == getSnapshotConsensusBlock(targetSlot, bcFinalized, bcBlocks) IN
                       \/ /\ r.kind = "waiting"
                          /\ Return("rewards", c, Err("waiting"))
                          /\ UNCHANGED <<crashed, loc>>
                       \/ \* t.bc.GetBeaconBlock fails during the walk
                          /\ r.kind # "waiting"
                          /\ Return("rewards", c, Err("block"))
                          /\ UNCHANGED <<crashed, loc>>
                       \/ \* no block is ever found: the loop does not end
                          /\ r.kind = "forever"
                          /\ Goto("rewards", c, "walking")
                          /\ UNCHANGED <<crashed, ret, loc>>
                       \/ \* t.ec.HeaderByNumber fails
                          /\ r.kind = "resolved"
                          /\ Return("rewards", c, Err("header"))
                          /\ UNCHANGED <<crashed, loc>>
                       \/ /\ r.kind = "resolved"
                          /\ Goto("rewards", c, "check")
                          /\ loc' = [loc EXCEPT !["rewards"][c] =
                                [nodeTrusted |-> s.nodeTrusted,
                                 intervalsPassed |-> IntervalsPassed(s),
                                 currentIndex |-> s.RewardIndex,
                                 startTime |-> s.IntervalStart,
                                 endTime |-> EndTime(s),
                                 snapshotBeaconBlock |-> r.slot,
                                 elBlockIndex |-> r.el]]
                          /\ UNCHANGED <<crashed, ret>>

\* Run, line 123: t.lock.Lock()
RewardsLock(c) ==
    /\ ~crashed /\ pc["rewards"][c] = "check"
    /\ lock["rewards"] = Free
    /\ lock' = [lock EXCEPT !["rewards"] = <<"run", c>>]
    /\ Goto("rewards", c, "check_locked")
    /\ UNCHANGED <<Env, effects, crashed, isRunning, bg, st, loc, ret, finishes, file, ledger>>

\* Run, lines 124-129: read t.isRunning and unlock.
RewardsCheckRunning(c) ==
    /\ ~crashed /\ pc["rewards"][c] = "check_locked"
    /\ lock' = [lock EXCEPT !["rewards"] = Free]
    /\ IF isRunning["rewards"]
       THEN Return("rewards", c, Nil("already-running"))
       ELSE Goto("rewards", c, "services") /\ UNCHANGED ret
    /\ UNCHANGED <<Env, effects, crashed, isRunning, bg, st, loc, finishes, file, ledger>>

\* What an invocation with the locals l does to the world: a generation
\* pass (rprewards.NewTreeGenerator with uint64(intervalsPassed), line 294),
\* an upload to Web3.Storage (lines 180, 321, 349), or a call of
\* submitRewardsSnapshot with big.NewInt(int64(intervalsPassed)) (lines 187,
\* 356).
Effect(kind, l) ==
    [kind |-> kind,
     index |-> l.currentIndex,
     startTime |-> l.startTime,
     endTime |-> l.endTime,
     intervalsPassed |-> IF kind = "generate" THEN ToUint64(l.intervalsPassed)
                         ELSE l.intervalsPassed]

Did(t, c, es) == effects' = [effects EXCEPT ![t][c] = @ \o es]

\* Run, lines 131-201: create the rewards pool binding, then reuse a valid
\* file (upload it and start the submission) or start the generation.
RewardsReuseOrGenerate(c) ==
    /\ ~crashed /\ pc["rewards"][c] = "services"
    /\ LET l == loc["rewards"][c] IN
       /\ UNCHANGED <<Env, crashed, isRunning, lock, st, loc, finishes, file, ledger>>
       /\ \/ \* rewards.NewRewardsPool fails: t.handleError, return nil
             /\ Goto("rewards", c, "handleError")
             /\ UNCHANGED <<bg, ret, effects>>
          \/ \E readable \in BOOLEAN :
               IF isExistingFileValid(file[l.currentIndex], ToUint64(l.intervalsPassed), readable)
               THEN IF ~l.nodeTrusted
                    THEN /\ Return("rewards", c, Nil("exists"))
                         /\ UNCHANGED <<bg, effects>>
                    ELSE \/ \* t.hasSubmittedTree fails
                            /\ Return("rewards", c, Err("has-submitted"))
                            /\ UNCHANGED <<bg, effects>>
                         \/ /\ hasSubmittedTree(l.currentIndex)
                            /\ Return("rewards", c, Nil("submitted"))
                            /\ UNCHANGED <<bg, effects>>
                         \/ \* os.ReadFile or DeserializeRewardsFile fails
                            /\ ~hasSubmittedTree(l.currentIndex)
                            /\ Return("rewards", c, Err("read"))
                            /\ UNCHANGED <<bg, effects>>
                         \/ \* the upload to Web3.Storage fails
                            /\ ~hasSubmittedTree(l.currentIndex)
                            /\ Return("rewards", c, Err("upload"))
                            /\ Did("rewards", c, <<Effect("upload-tree", l)>>)
                            /\ UNCHANGED bg
                         \/ \* uploaded: t.submitRewardsSnapshot begins
                            /\ ~hasSubmittedTree(l.currentIndex)
                            /\ Goto("rewards", c, "resubmitting")
                            /\ Did("rewards", c, <<Effect("upload-tree", l),
                                                  Effect("submit", l)>>)
                            /\ UNCHANGED <<bg, ret>>
               ELSE \* t.generateTree: go func() {...}, return nil; a file
                    \* that is there and cannot be read is reported in the
                    \* log (line 223)
                    /\ BgGoto("rewards", c, "spawned")
                    /\ Return("rewards", c, Nil("generating"))
                    /\ IF file[l.currentIndex].kind # "absent" /\ ~readable
                       THEN Did("rewards", c, <<Effect("warn-unreadable", l)>>)
                       ELSE UNCHANGED effects

\* Run, lines 187-193: the submission of the reused file ends.
RewardsResubmitted(c) ==
    /\ ~crashed /\ pc["rewards"][c] = "resubmitting"
    /\ LET l == loc["rewards"][c] IN
       \/ \* the transaction was included
          /\ ledger' = ledger \cup {l.currentIndex}
          /\ Return("rewards", c, Nil("resubmitted"))
       \/ \* the gas check refused: submitRewardsSnapshot returns nil
          /\ Return("rewards", c, Nil("gas"))
          /\ UNCHANGED ledger
       \/ /\ Return("rewards", c, Err("submit"))
          /\ UNCHANGED ledger
    /\ UNCHANGED <<Env, effects, crashed, isRunning, lock, bg, st, loc, finishes, file>>

\* handleError called by Run (line 140), line 206: t.lock.Lock()
RewardsRunHandleError(c) ==
    /\ ~crashed /\ pc["rewards"][c] = "handleError"
    /\ lock["rewards"] = Free
    /\ lock' = [lock EXCEPT !["rewards"] = <<"run", c>>]
    /\ Goto("rewards", c, "handleError_locked")
    /\ UNCHANGED <<Env, effects, crashed, isRunning, bg, st, loc, ret, finishes, file, ledger>>

\* handleError called by Run, lines 207-208, then return nil (line 141)
RewardsRunHandleErrorClear(c) ==
    /\ ~crashed /\ pc["rewards"][c] = "handleError_locked"
    /\ isRunning' = [isRunning EXCEPT !["rewards"] = FALSE]
    /\ lock' = [lock EXCEPT !["rewards"] = Free]
    /\ finishes' = [finishes EXCEPT !["rewards"][c] = @ + 1]
    /\ Return("rewards", c, Nil("pool-error"))
    /\ UNCHANGED <<Env, effects, crashed, bg, st, loc, file, ledger>>

\* ------------------------------------------------------------------------
\* Rewards task: the generation goroutine (generateTree)
\* ------------------------------------------------------------------------

\* generateTree, line 250: t.lock.Lock()
GenerateTreeLock(c) ==
    /\ ~crashed /\ bg["rewards"][c] = "spawned"
    /\ lock["rewards"] = Free
    /\ lock' = [lock EXCEPT !["rewards"] = <<"bg", c>>]
    /\ BgGoto("rewards", c, "start_locked")
    /\ UNCHANGED <<Env, effects, crashed, isRunning, pc, st, loc, ret, finishes, file, ledger>>

\* generateTree, lines 251-252: t.isRunning = true, unlock
GenerateTreeSetRunning(c) ==
    /\ ~crashed /\ bg["rewards"][c] = "start_locked"
    /\ isRunning' = [isRunning EXCEPT !["rewards"] = TRUE]
    /\ lock' = [lock EXCEPT !["rewards"] = Free]
    /\ BgGoto("rewards", c, "generating")
    /\ UNCHANGED <<Env, effects, crashed, pc, st, loc, ret, finishes, file, ledger>>

\* generateTree lines 254-259 and generateTreeImpl lines 274-343: get a
\* client, generate the tree, save (and for a trusted node upload) the
\* minipool performance file, write the rewards tree file.
GenerateTreeImpl(c) ==
    /\ ~crashed /\ bg["rewards"][c] = "generating"
    /\ LET l == loc["rewards"][c]
           \* lines 294-298 and, for a trusted node, line 321
           pass == IF l.nodeTrusted
                   THEN <<Effect("generate", l), Effect("upload-performance", l)>>
                   ELSE <<Effect("generate", l)>>
       IN
       \/ \* eth1.GetBestApiClient fails: handleError and return
          /\ BgGoto("rewards", c, "handleError_return")
          /\ UNCHANGED <<file, effects>>
       \/ \* generateTreeImpl fails before the rewards file is written
          /\ BgGoto("rewards", c, "handleError")
          /\ \E n \in 0..Len(pass) : Did("rewards", c, SubSeq(pass, 1, n))
          /\ UNCHANGED file
       \/ /\ file' = [file EXCEPT ![l.currentIndex] = RewardsFile(ToUint64(l.intervalsPassed))]
          /\ Did("rewards", c, pass)
          /\ BgGoto("rewards", c, "written")
    /\ UNCHANGED <<Env, crashed, isRunning, lock, pc, st, loc, ret, finishes, ledger>>

\* GenerateTreeUpload without the nodeTrusted test of line 346.
GenerateTreeUploadAlways(c) ==
    /\ ~crashed /\ bg["rewards"][c] = "written"
    /\ LET l == loc["rewards"][c] IN
       \/ /\ BgGoto("rewards", c, "handleError")
          /\ Did("rewards", c, <<Effect("upload-tree", l)>>)
       \/ /\ BgGoto("rewards", c, "submitting")
          /\ Did("rewards", c, <<Effect("upload-tree", l), Effect("submit", l)>>)
    /\ UNCHANGED <<Env, crashed, isRunning, lock, pc, st, loc, ret, finishes, file, ledger>>

\* GenerateTreeUpload with a failed upload taking the written file away.
GenerateTreeUploadRemovesFile(c) ==
    /\ ~crashed /\ bg["rewards"][c] = "written"
    /\ LET l == loc["rewards"][c] IN
       IF l.nodeTrusted
       THEN \/ /\ BgGoto("rewards", c, "handleError")
               /\ Did("rewards", c, <<Effect("upload-tree", l)>>)
               /\ file' = [file EXCEPT ![l.currentIndex] = Absent]
            \/ /\ BgGoto("rewards", c, "submitting")
               /\ Did("rewards", c, <<Effect("upload-tree", l), Effect("submit", l)>>)
               /\ UNCHANGED file
       ELSE BgGoto("rewards", c, "finish") /\ UNCHANGED <<effects, file>>
    /\ UNCHANGED <<Env, crashed, isRunning, lock, pc, st, loc, ret, finishes, ledger>>

\* generateTreeImpl, lines 345-364: only a trusted node uploads the tree
\* and starts the submission.
GenerateTreeUpload(c) ==
    /\ ~crashed /\ bg["rewards"][c] = "written"
    /\ LET l == loc["rewards"][c] IN
       IF l.nodeTrusted
       THEN \/ \* t.uploadFileToWeb3Storage fails
               /\ BgGoto("rewards", c, "handleError")
               /\ Did("rewards", c, <<Effect("upload-tree", l)>>)
            \/ \* uploaded: t.submitRewardsSnapshot begins
               /\ BgGoto("rewards", c, "submitting")
               /\ Did("rewards", c, <<Effect("upload-tree", l), Effect("submit", l)>>)
       ELSE BgGoto("rewards", c, "finish") /\ UNCHANGED effects
    /\ UNCHANGED <<Env, crashed, isRunning, lock, pc, st, loc, ret, finishes, file, ledger>>

\* generateTreeImpl, lines 356-361: the submission ends.
GenerateTreeSubmitted(c) ==
    /\ ~crashed /\ bg["rewards"][c] = "submitting"
    /\ LET l == loc["rewards"][c] IN
       \/ \* the transaction was included
          /\ ledger' = ledger \cup {l.currentIndex}
          /\ BgGoto("rewards", c, "finish")
       \/ \* the gas check refused: submitRewardsSnapshot returns nil
          /\ BgGoto("rewards", c, "finish")
          /\ UNCHANGED ledger
       \/ /\ BgGoto("rewards", c, "handleError")
          /\ UNCHANGED ledger
    /\ UNCHANGED <<Env, effects, crashed, isRunning, lock, pc, st, loc, ret, finishes, file>>

\* handleError called by the goroutine, line 206: t.lock.Lock()
GenerateTreeHandleError(c) ==
    /\ ~crashed /\ bg["rewards"][c] \in {"handleError", "handleError_return"}
    /\ lock["rewards"] = Free
    /\ lock' = [lock EXCEPT !["rewards"] = <<"bg", c>>]
    /\ BgGoto("rewards", c, IF bg["rewards"][c] = "handleError"
                            THEN "handleError_locked"
                            ELSE "handleError_return_locked")
    /\ UNCHANGED <<Env, effects, crashed, isRunning, pc, st, loc, ret, finishes, file, ledger>>

\* handleError called by the goroutine, lines 207-208.  After the client
\* error (line 257) the goroutine returns; after a generateTreeImpl error
\* (line 264) it goes on to line 267.
GenerateTreeHandleErrorClear(c) ==
    /\ ~crashed /\ bg["rewards"][c] \in {"handleError_locked", "handleError_return_locked"}
    /\ isRunning' = [isRunning EXCEPT !["rewards"] = FALSE]
    /\ lock' = [lock EXCEPT !["rewards"] = Free]
    /\ finishes' = [finishes EXCEPT !["rewards"][c] = @ + 1]
    /\ BgGoto("rewards", c, IF bg["rewards"][c] = "handleError_locked"
                            THEN "finish"
                            ELSE "none")
    /\ UNCHANGED <<Env, effects, crashed, pc, st, loc, ret, file, ledger>>

\* generateTree, line 267: t.lock.Lock()
GenerateTreeFinish(c) ==
    /\ ~crashed /\ bg["rewards"][c] = "finish"
    /\ lock["rewards"] = Free
    /\ lock' = [lock EXCEPT !["rewards"] = <<"bg", c>>]
    /\ BgGoto("rewards", c, "finish_locked")
    /\ UNCHANGED <<Env, effects, crashed, isRunning, pc, st, loc, ret, finishes, file, ledger>>

\* generateTree, lines 268-269: t.isRunning = false, unlock, goroutine ends
GenerateTreeFinishClear(c) ==
    /\ ~crashed /\ bg["rewards"][c] = "finish_locked"
    /\ isRunning' = [isRunning EXCEPT !["rewards"] = FALSE]
    /\ lock' = [lock EXCEPT !["rewards"] = Free]
    /\ finishes' = [finishes EXCEPT !["rewards"][c] = @ + 1]
    /\ BgGoto("rewards", c, "none")
    /\ UNCHANGED <<Env, effects, crashed, pc, st, loc, ret, file, ledger>>

\* ------------------------------------------------------------------------
\* Price task: the L2 relay (updateL2Prices)
\* ------------------------------------------------------------------------

BlocksPerTurn == 75

\* The relay targets in the order updateL2Prices submits to them.
Targets == <<"optimism", "polygon", "arbitrum", "zksync", "base">>

TargetSet == {Targets[i] : i \in 1..Len(Targets)}

\* This node's address (opts.From).
Self == "self"

\* The loop of lines 446-452 for the node whose address is from: the first
\* position of from in the member list (0-based), and 0 when it is not in
\* the list.
RECURSIVE IndexOf(_, _, _)
IndexOf(members, from, i) ==
    IF i > Len(members) THEN 0
    ELSE IF members[i] = from THEN i - 1
    ELSE IndexOf(members, from, i + 1)

\* The same loop for this node (from = opts.From).
MemberIndex(members, i) == IndexOf(members, Self, i)

\* Line 456 (count # 0).
IndexToSubmitNoWrap(blockNumber, count) == blockNumber \div BlocksPerTurn

IndexToSubmit(blockNumber, count) == (blockNumber \div BlocksPerTurn) % count

\* The first member also passes in every turn.
MyTurnOrFirst(members, from, blockNumber) ==
    \/ IndexOf(members, from, 1) = IndexToSubmit(blockNumber, Len(members))
    \/ IndexOf(members, from, 1) = 0

\* Line 457, for the node whose address is from: index == indexToSubmit.
MyTurn(members, from, blockNumber) ==
    IndexOf(members, from, 1) = IndexToSubmit(blockNumber, Len(members))

\* opts.Value after update<Target> ran with opts.Value = value: updateArbitrum
\* (line 572) and updateZkSyncEra (line 625) assign it, unless the Arbitrum
\* fee lookup (line 550) failed first; the others leave it alone.
ValueAfter(target, value, outcome) ==
    IF target = "arbitrum" /\ outcome # "fee-error" THEN "arbitrum"
    ELSE IF target = "zksync" THEN "zksync"
    ELSE value

\* Lines 458-474: the stale targets in order, each with the shared opts.
\* outcome[t] is how update<Target> ends: "sent", "refused" (gas check),
\* "error" (SubmitRate, simulation or waiting failed) or "fee-error".
RECURSIVE RelayPassStopsAtFailure(_, _, _, _, _)
RelayPassStopsAtFailure(i, value, stale, outcome, acc) ==
    IF i > Len(Targets) \/ acc.failed # {} THEN acc
    ELSE LET t == Targets[i]
             v == ValueAfter(t, value, outcome[t])
         IN IF t \notin stale THEN RelayPassStopsAtFailure(i + 1, value, stale, outcome, acc)
            ELSE RelayPassStopsAtFailure(i + 1, v, stale, outcome,
                    [attempted |-> Append(acc.attempted, t),
                     txs |-> IF outcome[t] = "sent"
                             THEN Append(acc.txs, [target |-> t, value |-> v])
                             ELSE acc.txs,
                     failed |-> IF outcome[t] \in {"error", "fee-error"}
                                THEN acc.failed \cup {t}
                                ELSE acc.failed,
                     turn |-> acc.turn])

RECURSIVE RelayPass(_, _, _, _, _)
RelayPass(i, value, stale, outcome, acc) ==
    IF i > Len(Targets) THEN acc
    ELSE LET t == Targets[i]
             v == ValueAfter(t, value, outcome[t])
         IN IF t \notin stale THEN RelayPass(i + 1, value, stale, outcome, acc)
            ELSE RelayPass(i + 1, v, stale, outcome,
                    [attempted |-> Append(acc.attempted, t),
                     txs |-> IF outcome[t] = "sent"
                             THEN Append(acc.txs, [target |-> t, value |-> v])
                             ELSE acc.txs,
                     failed |-> IF outcome[t] \in {"error", "fee-error"}
                                THEN acc.failed \cup {t}
                                ELSE acc.failed,
                     turn |-> acc.turn])

\* Lines 445-456: the member count, this node's index as the loop computes
\* it, whether the loop found the node in the list, and the index whose turn
\* it is at the block.
NoTurn ==
    [block |-> 0, count |-> 0, index |-> 0, member |-> FALSE, indexToSubmit |-> 0,
     members |-> <<>>]

Turn(s) ==
    [block |-> s.ElBlockNumber,
     count |-> Len(s.members),
     index |-> MemberIndex(s.members, 1),
     member |-> \E i \in 1..Len(s.members) : s.members[i] = Self,
     indexToSubmit |-> IndexToSubmit(s.ElBlockNumber, Len(s.members)),
     members |-> s.members]

NoRelay == [attempted |-> <<>>, txs |-> <<>>, failed |-> {}, turn |-> NoTurn]

\* updateL2Prices for the state s: what it returns and the relay pass made.
\* panic: line 456 divides by the member count.
updateL2Prices(s) ==
    IF s.fault = "binding" /\ messengers # {}
    THEN [err |-> TRUE, panic |-> FALSE, pass |-> NoRelay]
    ELSE IF messengers = {}
    THEN [err |-> FALSE, panic |-> FALSE, pass |-> NoRelay]
    ELSE IF s.fault \in {"transactor", "query"}
    THEN [err |-> TRUE, panic |-> FALSE, pass |-> NoRelay]
    ELSE IF s.stale \cap messengers = {}
    THEN [err |-> FALSE, panic |-> FALSE, pass |-> NoRelay]
    ELSE IF Len(s.members) = 0
    THEN [err |-> FALSE, panic |-> TRUE, pass |-> NoRelay]
    ELSE IF MyTurn(s.members, Self, s.ElBlockNumber)
    THEN LET pass == RelayPass(1, "none", s.stale \cap messengers, s.outcome,
                               [NoRelay EXCEPT !.turn = Turn(s)])
         IN [err |-> pass.failed # {}, panic |-> FALSE, pass |-> pass]
    ELSE [err |-> FALSE, panic |-> FALSE, pass |-> [NoRelay EXCEPT !.turn = Turn(s)]]

\* ------------------------------------------------------------------------
\* Price task: inputs
\* ------------------------------------------------------------------------

\* Execution block numbers and RPL prices of the model.
PriceBlocks == {1, 2}

RplPrices == {10, 11}

\* Values of the header time of the reportable block.
BlockTimes == {0, 5, 9}

MemberLists == {<<>>, <<Self>>, <<"a", Self>>, <<"a", "b">>}

RelayOutcomes == {"sent", "refused", "error", "fee-error"}

\* A state whose relay step has nothing to do.
QuietRelay ==
    [fault |-> "none", stale |-> {}, members |-> <<Self>>, ElBlockNumber |-> 0,
     outcome |-> [t \in TargetSet |-> "sent"]]

PriceStatesNarrow ==
    {QuietRelay @@ p :
        p \in [SubmitPricesEnabled : BOOLEAN,
               LatestReportablePricesBlock : PriceBlocks,
               PricesBlock : {1},
               blockTime : {5}]}

\* The blocks, member lists and outcomes of the relay scope: a target that
\* is not stale is not called, and only updateArbitrum looks up the fee.
RelayBlocks == {0, 74, 75, 149, 225, 300, 374}

RelayMemberLists == MemberLists \cup {<<Self, "a", "b", "c">>, <<"a", "b", "c", Self>>}

RelayOutcomesOf(stale) ==
    {o \in [TargetSet -> RelayOutcomes] :
        \A t \in TargetSet :
           /\ t \notin stale => o[t] = "sent"
           /\ o[t] = "fee-error" => t = "arbitrum"
           /\ o[t] = "refused" => t = "base"}

PriceStatesRelay ==
    UNION {{[fault |-> "none", stale |-> stale, members |-> members,
             ElBlockNumber |-> b, outcome |-> outcome, SubmitPricesEnabled |-> TRUE,
             LatestReportablePricesBlock |-> 1, PricesBlock |-> 1, blockTime |-> 5] :
                members \in RelayMemberLists, b \in RelayBlocks,
                outcome \in RelayOutcomesOf(stale)} :
           stale \in SUBSET messengers}
    \cup
    {[QuietRelay EXCEPT !.fault = fault, !.stale = messengers] @@
        [SubmitPricesEnabled |-> TRUE, LatestReportablePricesBlock |-> latest,
         PricesBlock |-> 1, blockTime |-> 5] :
        fault \in {"binding", "transactor", "query"}, latest \in PriceBlocks}
    \cup
    {[QuietRelay EXCEPT !.stale = messengers] @@
        [SubmitPricesEnabled |-> enabled, LatestReportablePricesBlock |-> latest,
         PricesBlock |-> 1, blockTime |-> 5] :
        enabled \in BOOLEAN, latest \in PriceBlocks}

\* Every combination of the switch, the reportable and the recorded block,
\* and the time of the reportable block, with nothing to relay.
PriceStatesGate ==
    {QuietRelay @@ p :
        p \in [SubmitPricesEnabled : BOOLEAN,
               LatestReportablePricesBlock : PriceBlocks,
               PricesBlock : PriceBlocks,
               blockTime : BlockTimes]}

PriceStates ==
    IF scope = "relay" THEN PriceStatesRelay
    ELSE IF scope = "gate" THEN PriceStatesGate
    ELSE PriceStatesNarrow

\* The epoch taken to be that of genesis, whatever the block's time.
PriceTargetEpochsOfGenesis(blockTime) == {0}

\* Lines 103-112: the epoch of the slot of the block's time; the uint64
\* conversion of a negative number of seconds depends on the build.
PriceTargetEpochs(blockTime) ==
    {(slotSeconds \div BeaconConfig.SecondsPerSlot) \div BeaconConfig.SlotsPerEpoch :
        slotSeconds \in FloatToUint64(blockTime - BeaconConfig.GenesisTime)}

\* hasSubmittedBlockPrices / hasSubmittedSpecificBlockPrices: the flags keyed
\* by (node, block) and by (node, block, price).
hasSubmittedBlockPrices(blockNumber) == <<blockNumber>> \in prices

hasSubmittedSpecificBlockPrices(blockNumber, rplPrice) ==
    <<blockNumber, rplPrice>> \in prices

\* ------------------------------------------------------------------------
\* Price task: Run
\* ------------------------------------------------------------------------

\* The scheduler calls Run(state).
PriceTick(c) ==
    /\ ~crashed /\ task = "price" /\ c \in calls
    /\ pc["price"][c] = "idle" /\ bg["price"][c] = "none"
    /\ scope = "relay" => ~ticked
    /\ ticked' = (scope = "relay")
    /\ \E s \in PriceStates : st' = [st EXCEPT !["price"][c] = s]
    /\ Goto("price", c, "entered")
    /\ ret' = [ret EXCEPT !["price"][c] = NoRet]
    /\ loc' = [loc EXCEPT !["price"][c] = NoLoc]
    /\ finishes' = [finishes EXCEPT !["price"][c] = 0]
    /\ relay' = [relay EXCEPT ![c] = NoRelay]
    /\ effects' = [effects EXCEPT !["price"][c] = <<>>]
    /\ UNCHANGED <<World, crashed, isRunning, lock, bg, file, ledger, prices>>

\* Run, lines 73-121: enabled check, the L2 relay, the checkpoint check,
\* the header lookup and the finality check.
PriceCheckpoint(c) ==
    /\ ~crashed /\ pc["price"][c] = "entered"
    /\ LET s == st["price"][c]
           l2 == updateL2Prices(s)
       IN
       /\ st' = [st EXCEPT !["price"][c] = NoState]
       /\ UNCHANGED <<PriceEnv, effects, isRunning, lock, bg, finishes, prices>>
       /\ IF ~s.SubmitPricesEnabled
          THEN /\ Return("price", c, Nil("disabled"))
               /\ UNCHANGED <<crashed, loc, relay>>
          ELSE IF l2.panic
          THEN /\ crashed' = TRUE
               /\ UNCHANGED <<pc, ret, loc, relay>>
          ELSE /\ relay' = [relay EXCEPT ![c] = l2.pass]
               /\ UNCHANGED crashed
               /\ IF s.LatestReportablePricesBlock <= s.PricesBlock
                  THEN Return("price", c, Nil("no-checkpoint")) /\ UNCHANGED loc
                  ELSE \/ \* t.ec.HeaderByNumber or t.bc.GetBeaconHead fails
                          /\ \E at \in {"header", "head"} : Return("price", c, Err(at))
                          /\ UNCHANGED loc
                       \/ \E targetEpoch \in PriceTargetEpochs(s.blockTime) :
                            IF targetEpoch > bcFinalized
                            THEN Return("price", c, Nil("waiting")) /\ UNCHANGED loc
                            ELSE /\ Goto("price", c, "check")
                                 /\ loc' = [loc EXCEPT !["price"][c] =
                                       [blockNumber |-> s.LatestReportablePricesBlock,
                                        rplPrice |-> 0]]
                                 /\ UNCHANGED ret

\* Run, line 124: t.lock.Lock()
PriceLock(c) ==
    /\ ~crashed /\ pc["price"][c] = "check"
    /\ lock["price"] = Free
    /\ lock' = [lock EXCEPT !["price"] = <<"run", c>>]
    /\ Goto("price", c, "check_locked")
    /\ UNCHANGED <<PriceEnv, effects, crashed, isRunning, bg, st, loc, ret, finishes, prices, relay>>

\* Run, lines 125-132 and 199-200: read t.isRunning and unlock; when it
\* is false start the goroutine and return nil.
PriceCheckRunning(c) ==
    /\ ~crashed /\ pc["price"][c] = "check_locked"
    /\ lock' = [lock EXCEPT !["price"] = Free]
    /\ IF isRunning["price"]
       THEN Return("price", c, Nil("already-running")) /\ UNCHANGED bg
       ELSE Return("price", c, Nil("reporting")) /\ BgGoto("price", c, "spawned")
    /\ UNCHANGED <<PriceEnv, effects, crashed, isRunning, st, loc, finishes, prices, relay>>

\* ------------------------------------------------------------------------
\* Price task: the report goroutine (Run, lines 132-197)
\* ------------------------------------------------------------------------

\* Line 133: t.lock.Lock()
PriceReportLock(c) ==
    /\ ~crashed /\ bg["price"][c] = "spawned"
    /\ lock["price"] = Free
    /\ lock' = [lock EXCEPT !["price"] = <<"bg", c>>]
    /\ BgGoto("price", c, "start_locked")
    /\ UNCHANGED <<PriceEnv, effects, crashed, isRunning, pc, st, loc, ret, finishes, prices, relay>>

\* Lines 134-135: t.isRunning = true, unlock
PriceReportSetRunning(c) ==
    /\ ~crashed /\ bg["price"][c] = "start_locked"
    /\ isRunning' = [isRunning EXCEPT !["price"] = TRUE]
    /\ lock' = [lock EXCEPT !["price"] = Free]
    /\ BgGoto("price", c, "reporting")
    /\ UNCHANGED <<PriceEnv, effects, crashed, pc, st, loc, ret, finishes, prices, relay>>

\* PriceReport with the already-submitted short-circuit returning before the
\* flag is cleared.
PriceReportReturnsEarly(c) ==
    /\ ~crashed /\ bg["price"][c] = "reporting"
    /\ LET l == loc["price"][c] IN
       \/ /\ BgGoto("price", c, "handleError")
          /\ UNCHANGED <<loc, effects>>
       \/ \E rplPrice \in RplPrices :
            /\ loc' = [loc EXCEPT !["price"][c].rplPrice = rplPrice]
            /\ IF hasSubmittedSpecificBlockPrices(l.blockNumber, rplPrice)
               THEN BgGoto("price", c, "none") /\ UNCHANGED effects
               ELSE /\ BgGoto("price", c, "submitting")
                    /\ Did("price", c, <<[kind |-> "submit",
                                          block |-> l.blockNumber,
                                          price |-> rplPrice]>>)
    /\ UNCHANGED <<PriceEnv, crashed, isRunning, lock, pc, st, ret, finishes, prices, relay>>

\* PriceReport consulting the flag keyed by the block alone.
PriceReportAnyValue(c) ==
    /\ ~crashed /\ bg["price"][c] = "reporting"
    /\ LET l == loc["price"][c] IN
       \/ /\ BgGoto("price", c, "handleError")
          /\ UNCHANGED <<loc, effects>>
       \/ \E rplPrice \in RplPrices :
            /\ loc' = [loc EXCEPT !["price"][c].rplPrice = rplPrice]
            /\ IF hasSubmittedBlockPrices(l.blockNumber)
               THEN BgGoto("price", c, "finish") /\ UNCHANGED effects
               ELSE /\ BgGoto("price", c, "submitting")
                    /\ Did("price", c, <<[kind |-> "submit",
                                          block |-> l.blockNumber,
                                          price |-> rplPrice]>>)
    /\ UNCHANGED <<PriceEnv, crashed, isRunning, lock, pc, st, ret, finishes, prices, relay>>

\* Lines 136-184: get the TWAP price, then consult the submission flags.
PriceReport(c) ==
    /\ ~crashed /\ bg["price"][c] = "reporting"
    /\ LET l == loc["price"][c] IN
       \/ \* getRplTwap or one of the flag queries fails
          /\ BgGoto("price", c, "handleError")
          /\ UNCHANGED <<loc, effects>>
       \/ \E rplPrice \in RplPrices :
            /\ loc' = [loc EXCEPT !["price"][c].rplPrice = rplPrice]
            /\ IF hasSubmittedSpecificBlockPrices(l.blockNumber, rplPrice)
               THEN BgGoto("price", c, "finish") /\ UNCHANGED effects
               ELSE /\ BgGoto("price", c, "submitting")
                    /\ Did("price", c, <<[kind |-> "submit",
                                          block |-> l.blockNumber,
                                          price |-> rplPrice]>>)
    /\ UNCHANGED <<PriceEnv, crashed, isRunning, lock, pc, st, ret, finishes, prices, relay>>

\* Lines 186-193 (submitRplPrice): the submission ends.
PriceSubmitted(c) ==
    /\ ~crashed /\ bg["price"][c] = "submitting"
    /\ LET l == loc["price"][c] IN
       \/ \* the transaction was included
          /\ prices' = prices \cup {<<l.blockNumber>>, <<l.blockNumber, l.rplPrice>>}
          /\ BgGoto("price", c, "finish")
       \/ \* the gas check refused: submitRplPrice returns nil
          /\ BgGoto("price", c, "finish")
          /\ UNCHANGED prices
       \/ /\ BgGoto("price", c, "handleError")
          /\ UNCHANGED prices
    /\ UNCHANGED <<PriceEnv, effects, crashed, isRunning, lock, pc, st, loc, ret, finishes, relay>>

\* handleError, line 206: t.lock.Lock()
PriceHandleError(c) ==
    /\ ~crashed /\ bg["price"][c] = "handleError"
    /\ lock["price"] = Free
    /\ lock' = [lock EXCEPT !["price"] = <<"bg", c>>]
    /\ BgGoto("price", c, "handleError_locked")
    /\ UNCHANGED <<PriceEnv, effects, crashed, isRunning, pc, st, loc, ret, finishes, prices, relay>>

\* handleError without line 207: the flag stays set.
PriceHandleErrorKeepsFlag(c) ==
    /\ ~crashed /\ bg["price"][c] = "handleError_locked"
    /\ lock' = [lock EXCEPT !["price"] = Free]
    /\ finishes' = [finishes EXCEPT !["price"][c] = @ + 1]
    /\ BgGoto("price", c, "none")
    /\ UNCHANGED <<PriceEnv, effects, crashed, isRunning, pc, st, loc, ret, prices, relay>>

\* handleError, lines 207-208; the goroutine then returns.
PriceHandleErrorClear(c) ==
    /\ ~crashed /\ bg["price"][c] = "handleError_locked"
    /\ isRunning' = [isRunning EXCEPT !["price"] = FALSE]
    /\ lock' = [lock EXCEPT !["price"] = Free]
    /\ finishes' = [finishes EXCEPT !["price"][c] = @ + 1]
    /\ BgGoto("price", c, "none")
    /\ UNCHANGED <<PriceEnv, effects, crashed, pc, st, loc, ret, prices, relay>>

\* Lines 167 and 194: t.lock.Lock()
PriceFinish(c) ==
    /\ ~crashed /\ bg["price"][c] = "finish"
    /\ lock["price"] = Free
    /\ lock' = [lock EXCEPT !["price"] = <<"bg", c>>]
    /\ BgGoto("price", c, "finish_locked")
    /\ UNCHANGED <<PriceEnv, effects, crashed, isRunning, pc, st, loc, ret, finishes, prices, relay>>

\* Lines 168-170 and 195-196: t.isRunning = false, unlock, goroutine ends
PriceFinishClear(c) ==
    /\ ~crashed /\ bg["price"][c] = "finish_locked"
    /\ isRunning' = [isRunning EXCEPT !["price"] = FALSE]
    /\ lock' = [lock EXCEPT !["price"] = Free]
    /\ finishes' = [finishes EXCEPT !["price"][c] = @ + 1]
    /\ BgGoto("price", c, "none")
    /\ UNCHANGED <<PriceEnv, effects, crashed, pc, st, loc, ret, prices, relay>>

\* ------------------------------------------------------------------------
\* Specification
\* ------------------------------------------------------------------------

InitTasks ==
    /\ crashed = FALSE
    /\ isRunning = [t \in Tasks |-> FALSE]
    /\ lock = [t \in Tasks |-> Free]
    /\ pc = [t \in Tasks |-> [c \in Calls |-> "idle"]]
    /\ bg = [t \in Tasks |-> [c \in Calls |-> "none"]]
    /\ st = [t \in Tasks |-> [c \in Calls |-> NoState]]
    /\ loc = [t \in Tasks |-> [c \in Calls |-> NoLoc]]
    /\ ret = [t \in Tasks |-> [c \in Calls |-> NoRet]]
    /\ finishes = [t \in Tasks |-> [c \in Calls |-> 0]]
    /\ ledger = {}
    /\ prices = {}
    /\ relay = [c \in Calls |-> NoRelay]
    /\ effects = [t \in Tasks |-> [c \in Calls |-> <<>>]]
    /\ pendingAtStop = {}
    /\ ticked = FALSE

\* Concurrent invocations of one task on a chain whose snapshot resolves.
Init ==
    /\ InitTasks
    /\ submission = NoSubmission
    /\ scope = "narrow"
    /\ task \in Tasks
    /\ messengers = {}
    /\ calls = Calls
    /\ bcFinalized = 2
    /\ bcBlocks = Slots
    /\ file = [i \in RewardIndices |-> Absent]

\* One invocation at a time, over every chain state of the model.
InitWide ==
    /\ InitTasks
    /\ submission = NoSubmission
    /\ scope = "wide"
    /\ task = "rewards"
    /\ messengers = {}
    /\ calls = {1}
    /\ bcFinalized \in Epochs
    /\ bcBlocks \in SUBSET Slots
    /\ file \in {[i \in RewardIndices |-> IF i = 0 THEN f ELSE Absent] :
                    f \in {Corrupt, RewardsFile(1)}}

\* One invocation after the other, with restarts, on a chain whose snapshot
\* resolves, over every input with a positive duration.
InitCache ==
    /\ InitTasks
    /\ submission = NoSubmission
    /\ scope = "cache"
    /\ task = "rewards"
    /\ messengers = {}
    /\ calls = {1}
    /\ bcFinalized = MaxSlot
    /\ bcBlocks = Slots
    /\ file \in {[i \in RewardIndices |-> IF i = 0 THEN f ELSE Absent] :
                    f \in {Absent, Corrupt}}

\* One invocation of the price task, over the relay inputs, with all, some
\* or none of the messenger addresses configured.
InitRelay ==
    /\ InitTasks
    /\ submission = NoSubmission
    /\ scope = "relay"
    /\ task = "price"
    /\ messengers \in {TargetSet, {"optimism", "polygon", "base"}, {}}
    /\ calls = {1}
    /\ bcFinalized = 2
    /\ bcBlocks = Slots
    /\ file = [i \in RewardIndices |-> Absent]

\* ------------------------------------------------------------------------
\* Submission timestamps (watchtower/utils)
\* ------------------------------------------------------------------------

\* The next boundary after the latest block instead of the last one reached.
FindNextSubmissionTimestampAfter(latestBlockTimestamp, referenceTimestamp, submissionIntervalInSeconds) ==
    IF latestBlockTimestamp = 0 \/ referenceTimestamp = 0 \/ submissionIntervalInSeconds = 0
    THEN [err |-> TRUE, result |-> 0]
    ELSE IF referenceTimestamp > latestBlockTimestamp
    THEN [err |-> TRUE, result |-> 0]
    ELSE [err |-> FALSE,
          result |-> referenceTimestamp
                     + (((latestBlockTimestamp - referenceTimestamp)
                            \div submissionIntervalInSeconds) + 1)
                       * submissionIntervalInSeconds]

\* Without the check of a reference later than the latest block.
FindNextSubmissionTimestampAnyReference(latestBlockTimestamp, referenceTimestamp, submissionIntervalInSeconds) ==
    IF latestBlockTimestamp = 0 \/ referenceTimestamp = 0 \/ submissionIntervalInSeconds = 0
    THEN [err |-> TRUE, result |-> 0]
    ELSE [err |-> FALSE,
          result |-> referenceTimestamp
                     + GoDiv(latestBlockTimestamp - referenceTimestamp,
                             submissionIntervalInSeconds)
                       * submissionIntervalInSeconds]

\* FindNextSubmissionTimestamp: an error for a zero argument or a reference
\* later than the latest block, otherwise the last interval boundary, counted
\* from the reference, that is not after the latest block.
FindNextSubmissionTimestamp(latestBlockTimestamp, referenceTimestamp, submissionIntervalInSeconds) ==
    IF latestBlockTimestamp = 0 \/ referenceTimestamp = 0 \/ submissionIntervalInSeconds = 0
    THEN [err |-> TRUE, result |-> 0]
    ELSE IF referenceTimestamp > latestBlockTimestamp
    THEN [err |-> TRUE, result |-> 0]
    ELSE [err |-> FALSE,
          result |-> referenceTimestamp
                     + GoDiv(latestBlockTimestamp - referenceTimestamp,
                             submissionIntervalInSeconds)
                       * submissionIntervalInSeconds]

\* Block timestamps, reference timestamps and intervals (seconds) of the
\* calls: the values of TestFindNextSubmission and the boundaries around them.
LatestBlockTimestamps ==
    {0, 1713420000, 1713420045, 1713506399, 1713506400, 1713510000, 1713592800}

ReferenceTimestamps == {0, 1713420000, 1713506400, 1713596400}

SubmissionIntervals == {0, 1, 3600, 86400}

\* A caller has the arguments in hand and has not called yet.
InitTimestamp ==
    /\ InitTasks
    /\ scope = "timestamp"
    /\ task = "price"
    /\ messengers = {}
    /\ calls = {}
    /\ bcFinalized = 2
    /\ bcBlocks = Slots
    /\ file = [i \in RewardIndices |-> Absent]
    /\ submission \in
          {[NoSubmission EXCEPT !.latestBlockTimestamp = l, !.referenceTimestamp = r,
                                !.submissionIntervalInSeconds = i] :
              l \in LatestBlockTimestamps, r \in ReferenceTimestamps,
              i \in SubmissionIntervals}

\* The call returns.
FindNextSubmission ==
    /\ scope = "timestamp" /\ ~submission.returned
    /\ LET r == FindNextSubmissionTimestamp(submission.latestBlockTimestamp,
                                            submission.referenceTimestamp,
                                            submission.submissionIntervalInSeconds)
       IN submission' = [submission EXCEPT !.returned = TRUE, !.err = r.err,
                                           !.result = r.result]
    /\ UNCHANGED <<scope, task, calls, ticked, messengers, crashed, bcFinalized,
                   bcBlocks, isRunning, lock, pc, bg, st, loc, ret, finishes, file,
                   ledger, prices, relay, pendingAtStop, effects>>

SpecTimestamp == InitTimestamp /\ [][FindNextSubmission]_vars

NextRewards ==
    \E c \in Calls :
        \/ RewardsTick(c)
        \/ RewardsCheckpoint(c)
        \/ RewardsLock(c)
        \/ RewardsCheckRunning(c)
        \/ RewardsReuseOrGenerate(c)
        \/ RewardsResubmitted(c)
        \/ RewardsRunHandleError(c)
        \/ RewardsRunHandleErrorClear(c)
        \/ GenerateTreeLock(c)
        \/ GenerateTreeSetRunning(c)
        \/ GenerateTreeImpl(c)
        \/ GenerateTreeUpload(c)
        \/ GenerateTreeSubmitted(c)
        \/ GenerateTreeHandleError(c)
        \/ GenerateTreeHandleErrorClear(c)
        \/ GenerateTreeFinish(c)
        \/ GenerateTreeFinishClear(c)

\* The process stops and is started again: the task objects are built anew
\* (NewSubmitRewardsTree_Stateless, NewSubmitRplPrice); the disk and the
\* chain keep their state.
Restart ==
    /\ \E t \in Tasks : \E c \in Calls : pc[t][c] # "idle" \/ bg[t][c] # "none"
    /\ crashed' = FALSE
    /\ isRunning' = [t \in Tasks |-> FALSE]
    /\ lock' = [t \in Tasks |-> Free]
    /\ pc' = [t \in Tasks |-> [c \in Calls |-> "idle"]]
    /\ bg' = [t \in Tasks |-> [c \in Calls |-> "none"]]
    /\ st' = [t \in Tasks |-> [c \in Calls |-> NoState]]
    /\ loc' = [t \in Tasks |-> [c \in Calls |-> NoLoc]]
    /\ ret' = [t \in Tasks |-> [c \in Calls |-> NoRet]]
    /\ finishes' = [t \in Tasks |-> [c \in Calls |-> 0]]
    /\ relay' = [c \in Calls |-> NoRelay]
    /\ effects' = [t \in Tasks |-> [c \in Calls |-> <<>>]]
    /\ pendingAtStop' = IF scope = "cache"
                        THEN {i \in RewardIndices :
                                file[i].kind = "tree" /\ i \notin ledger}
                        ELSE pendingAtStop
    /\ UNCHANGED <<Chain, ticked, file, ledger, prices>>

NextPrice ==
    \E c \in Calls :
        \/ PriceTick(c)
        \/ PriceCheckpoint(c)
        \/ PriceLock(c)
        \/ PriceCheckRunning(c)
        \/ PriceReportLock(c)
        \/ PriceReportSetRunning(c)
        \/ PriceReport(c)
        \/ PriceSubmitted(c)
        \/ PriceHandleError(c)
        \/ PriceHandleErrorClear(c)
        \/ PriceFinish(c)
        \/ PriceFinishClear(c)

Next == NextRewards \/ NextPrice \/ Restart

Spec == Init /\ [][Next]_vars

SpecWide == InitWide /\ [][NextRewards]_vars

SpecRelay == InitRelay /\ [][NextPrice]_vars

\* One invocation of the price task after the other, for every finalized
\* epoch the beacon client may report.
InitGate ==
    /\ InitTasks
    /\ submission = NoSubmission
    /\ scope = "gate"
    /\ task = "price"
    /\ messengers = {}
    /\ calls = {1}
    /\ bcFinalized \in Epochs
    /\ bcBlocks = Slots
    /\ file = [i \in RewardIndices |-> Absent]

SpecGate == InitGate /\ [][NextPrice]_vars

NextCache == NextRewards \/ Restart

SpecCache == InitCache /\ [][NextCache]_vars

\* The same behaviours with the scheduling the Go runtime guarantees: a
\* goroutine that can take a step takes it (weak fairness), and a goroutine
\* waiting for t.lock gets it if it is free again and again (sync.Mutex
\* hands the lock to starved waiters).  Two invocation slots are used.
InitFair ==
    /\ InitTasks
    /\ submission = NoSubmission
    /\ scope = "narrow"
    /\ task \in Tasks
    /\ messengers = {}
    /\ calls = {1, 2}
    /\ bcFinalized = 2
    /\ bcBlocks = Slots
    /\ file = [i \in RewardIndices |-> Absent]

\* Two invocation slots of one task, any scheduling.
SpecPair == InitFair /\ [][Next]_vars

\* A step of a goroutine of slot c that does not wait for t.lock.
BackgroundStep(c) ==
    \/ GenerateTreeSetRunning(c) \/ GenerateTreeImpl(c) \/ GenerateTreeUpload(c)
    \/ GenerateTreeSubmitted(c) \/ GenerateTreeHandleErrorClear(c)
    \/ GenerateTreeFinishClear(c)
    \/ PriceReportSetRunning(c) \/ PriceReport(c) \/ PriceSubmitted(c)
    \/ PriceHandleErrorClear(c) \/ PriceFinishClear(c)

\* A goroutine of slot c takes t.lock.
BackgroundLock(c) ==
    \/ GenerateTreeLock(c) \/ GenerateTreeHandleError(c) \/ GenerateTreeFinish(c)
    \/ PriceReportLock(c) \/ PriceHandleError(c) \/ PriceFinish(c)

\* The Run of slot c releases t.lock.
RunUnlock(c) ==
    \/ RewardsCheckRunning(c) \/ RewardsRunHandleErrorClear(c) \/ PriceCheckRunning(c)

Fairness ==
    \A c \in Calls :
        /\ WF_vars(BackgroundStep(c))
        /\ SF_vars(BackgroundLock(c))
        /\ WF_vars(RunUnlock(c))

FairSpec == InitFair /\ [][Next]_vars /\ Fairness

\* One invocation after the other in a process that is not stopped.
InitRetry ==
    /\ InitTasks
    /\ submission = NoSubmission
    /\ scope = "narrow"
    /\ task \in Tasks
    /\ messengers = {}
    /\ calls = {1}
    /\ bcFinalized = 2
    /\ bcBlocks = Slots
    /\ file = [i \in RewardIndices |-> Absent]

NextRetry == NextRewards \/ NextPrice

\* A step of the Run of slot c that does not wait for t.lock.
RunStep(c) ==
    \/ RewardsCheckpoint(c) \/ RewardsReuseOrGenerate(c) \/ RewardsResubmitted(c)
    \/ PriceCheckpoint(c)

\* The Run of slot c takes t.lock.
RunLock(c) == RewardsLock(c) \/ RewardsRunHandleError(c) \/ PriceLock(c)

\* The scheduler calls Run with a state that shows the interval (the price
\* block) as elapsed, on a trusted node that submits.
TickElapsed(c) ==
    \/ RewardsTick(c) /\ st'["rewards"][c].nodeTrusted
    \/ /\ PriceTick(c)
       /\ st'["price"][c].SubmitPricesEnabled
       /\ st'["price"][c].LatestReportablePricesBlock > st'["price"][c].PricesBlock

\* The reads of the checkpoint succeed and show the epoch as finalized.
CheckpointPasses(c) ==
    \/ RewardsCheckpoint(c) /\ pc'["rewards"][c] = "check"
    \/ PriceCheckpoint(c) /\ pc'["price"][c] = "check"

\* The binding and the queries of Run succeed: it starts the goroutine or
\* the resubmission of the file.
StartsWork(c) ==
    /\ RewardsReuseOrGenerate(c)
    /\ bg'["rewards"][c] = "spawned" \/ pc'["rewards"][c] = "resubmitting"

\* The scheduler keeps invoking Run and the chain keeps showing the work as
\* due: each of these steps, possible again and again, is taken.
RetryFairness ==
    \A c \in Calls :
        /\ WF_vars(RunStep(c))
        /\ SF_vars(RunLock(c))
        /\ SF_vars(TickElapsed(c))
        /\ SF_vars(CheckpointPasses(c))
        /\ SF_vars(StartsWork(c))

SpecRetry == InitRetry /\ [][NextRetry]_vars /\ Fairness /\ RetryFairness

\* ------------------------------------------------------------------------
\* Properties
\* ------------------------------------------------------------------------

\* The goroutine of invocation c has set the running flag and not ended.
Executing(t, c) == bg[t][c] \notin {"none", "spawned", "start_locked"}

\* An on-chain submission attempt of invocation c is in progress.
Submitting(t, c) == bg[t][c] = "submitting" \/ pc[t][c] = "resubmitting"

\* Invocation c has read isRunning as false and the flag has not been set
\* for it yet.
Acquiring(t, c) == pc[t][c] = "services" \/ bg[t][c] \in {"spawned", "start_locked"}

\* Invocation c started a background execution.
Started(t, c) == ret[t][c].at \in {"generating", "reporting"}

\* C1: for each task, at most one background execution is in flight at any
\* time, whatever the interleaving of the Run calls.
C1_SingleFlight ==
    \A t \in Tasks : Cardinality({c \in Calls : Executing(t, c)}) <= 1

\* C2: for each task, at most one on-chain submission attempt is in progress
\* at any time, resubmission of a cached artifact included.
C2_OneSubmission ==
    \A t \in Tasks : Cardinality({c \in Calls : Submitting(t, c)}) <= 1

\* C3: the running check and the setting of the flag are one critical
\* section (no second Run reads isRunning as false while a first one that
\* read it as false has not set it), and t.lock is held only around the
\* flag, never during generation, upload or submission.
C3_AtomicAcquire ==
    \A t \in Tasks :
        /\ Cardinality({c \in Calls : Acquiring(t, c)}) <= 1
        /\ lock[t] # Free =>
             LET c == lock[t][2] IN
             IF lock[t][1] = "run"
             THEN pc[t][c] \in {"check_locked", "handleError_locked"}
             ELSE bg[t][c] \in {"start_locked", "handleError_locked",
                                "handleError_return_locked", "finish_locked"}

\* C4: a background execution that set isRunning ends, having cleared it on
\* whichever path it took; when none is executing isRunning is false.
C4_FlagCleared ==
    /\ [](\A t \in Tasks :
            (\A c \in Calls : ~Executing(t, c)) => ~isRunning[t])
    /\ \A t \in Tasks : \A c \in Calls :
         Executing(t, c) ~> (bg[t][c] = "none")

\* A started background execution has ended, its finish step done, and the
\* flag is clear.
C4_Witness ==
    \E t \in Tasks : \E c \in Calls :
        /\ Started(t, c) /\ bg[t][c] = "none" /\ finishes[t][c] >= 1
        /\ ~isRunning[t]

\* C5: the finish step is performed exactly once per started background
\* execution, and never by a Run that started none.
C5_FinishOnce ==
    \A t \in Tasks : \A c \in Calls :
        /\ finishes[t][c] <= 1
        /\ finishes[t][c] >= 1 => Started(t, c)
        /\ (Started(t, c) /\ bg[t][c] = "none") => finishes[t][c] = 1

\* The epoch of the target slot of an end time, in unbounded integers:
\* ceil((endTime - genesisTime) / secondsPerSlot) div slotsPerEpoch.
SnapshotTargetEpoch(endTime) ==
    CeilDiv(endTime - BeaconConfig.GenesisTime, BeaconConfig.SecondsPerSlot)
        \div BeaconConfig.SlotsPerEpoch

\* The rewards Run of slot c got a resolved block from the resolver in
\* this step (the header lookup after it may still fail).
Resolves(c) ==
    /\ pc["rewards"][c] = "entered"
    /\ pc'["rewards"][c] = "check" \/ ret'["rewards"][c] = Err("header")

\* The Run with arguments s gets as far as the checkpoint computation.
Detects(s) == s.nodeTrusted \/ s.generateMode

\* C6: the resolver returns a resolved block only if the finalized epoch is
\* at least the target epoch of the end time plus one.
C6_FinalityMargin ==
    [][\A c \in Calls :
          Resolves(c) =>
             bcFinalized >= SnapshotTargetEpoch(EndTime(st["rewards"][c])) + 1]_vars

\* A block was resolved with the finalized epoch exactly the required one.
C6_Witness ==
    \E c \in Calls :
        /\ pc["rewards"][c] = "check"
        /\ bcFinalized = SnapshotTargetEpoch(loc["rewards"][c].endTime) + 1

\* The Run with arguments s finds at least one whole interval elapsed.
CheckpointPassed(s) ==
    /\ Detects(s)
    /\ s.IntervalDuration > 0
    /\ IntervalsPassed(s) > 0

\* The required epoch of the end time of s is not finalized.
WaitingOnFinality(s) ==
    /\ CheckpointPassed(s)
    /\ \A targetSlot \in TargetSlots(EndTime(s)) :
          bcFinalized < RequiredEpoch(targetSlot)

\* C7: when the required epoch is not finalized Run returns no error, starts
\* no generation and changes nothing (failures of the state or head lookup
\* aside).
C7_WaitingReturnsNil ==
    [][\A c \in Calls :
          (/\ pc["rewards"][c] = "entered"
           /\ WaitingOnFinality(st["rewards"][c])
           /\ pc'["rewards"][c] = "idle"
           /\ ret'["rewards"][c].at \notin {"state", "head"})
          => /\ ~ret'["rewards"][c].err
             /\ bg'["rewards"][c] = "none"
             /\ UNCHANGED <<isRunning, file, ledger>>]_vars

Greatest(S) == CHOOSE x \in S : \A y \in S : y <= x

\* C8: when a checkpoint has passed and finality is satisfied, the resolved
\* snapshot is the greatest slot with a proposed block at or
\* before the last slot of the target epoch, with that block's execution
\* block number.
C8_GreatestProposedSlot ==
    [][\A c \in Calls :
          (/\ pc["rewards"][c] = "entered"
           /\ CheckpointPassed(st["rewards"][c])
           /\ pc'["rewards"][c] = "check") =>
             LET E == SnapshotTargetEpoch(EndTime(st["rewards"][c]))
                 last == E * BeaconConfig.SlotsPerEpoch + (BeaconConfig.SlotsPerEpoch - 1)
                 candidates == {b \in bcBlocks : b <= last}
             IN /\ candidates # {}
                /\ loc'["rewards"][c].snapshotBeaconBlock = Greatest(candidates)
                /\ loc'["rewards"][c].elBlockIndex =
                      ExecutionBlockNumber(Greatest(candidates), bcBlocks)]_vars

\* C9: for a positive duration the elapsed-interval count is
\* floor((now - start) / duration) from the start on, never decreases as now
\* grows, and is 0 whenever now < start + duration (also before the start),
\* in which case Run returns without doing anything.
C9_ElapsedIntervals ==
    [][\A c \in Calls :
          LET s == st["rewards"][c] IN
          (pc["rewards"][c] = "entered" /\ Detects(s) /\ s.IntervalDuration > 0) =>
             /\ StateTime(s) >= s.IntervalStart =>
                   IntervalsPassed(s) = (StateTime(s) - s.IntervalStart) \div s.IntervalDuration
             /\ \A later \in Slots :
                   later >= s.BeaconSlotNumber =>
                      IntervalsPassed([s EXCEPT !.BeaconSlotNumber = later]) >= IntervalsPassed(s)
             /\ (/\ StateTime(s) < s.IntervalStart + s.IntervalDuration
                 /\ pc'["rewards"][c] # "entered"
                 /\ ret'["rewards"][c] # Err("state")) =>
                   /\ IntervalsPassed(s) = 0
                   /\ pc'["rewards"][c] = "idle"
                   /\ ret'["rewards"][c] = Nil("no-checkpoint")
                   /\ UNCHANGED <<isRunning, bg, file, ledger, crashed>>]_vars

\* C10: with an interval duration of zero or less the Run fails with an
\* error instead of dividing, and the process goes on.
C10_BadDurationFails ==
    [][\A c \in Calls :
          LET s == st["rewards"][c] IN
          (/\ pc["rewards"][c] = "entered" /\ Detects(s) /\ s.IntervalDuration <= 0
           /\ pc'["rewards"][c] # "entered" \/ crashed')
          => /\ ~crashed'
             /\ pc'["rewards"][c] = "idle"
             /\ ret'["rewards"][c].err]_vars

\* The files and interval counts the validity check is examined on.
ArtifactFiles == {Absent, Corrupt} \cup {RewardsFile(n) : n \in 0..MaxSlot}

\* The Run of slot c, with at least one interval elapsed, decides in this
\* step between reusing the file and generating.
DecidesReuse(c) ==
    /\ pc["rewards"][c] = "services"
    /\ \/ pc'["rewards"][c] = "resubmitting"
       \/ pc'["rewards"][c] = "idle" /\ ret'["rewards"][c] # NoRet
    /\ loc["rewards"][c].intervalsPassed > 0

\* The file of the current index parses and holds the current count.
ArtifactMatches(c) ==
    file[loc["rewards"][c].currentIndex] =
        RewardsFile(loc["rewards"][c].intervalsPassed)

\* The step logged that the file on disk could not be read.
WarnsUnreadable(c) ==
    /\ Len(effects'["rewards"][c]) = Len(effects["rewards"][c]) + 1
    /\ effects'["rewards"][c][Len(effects'["rewards"][c])].kind = "warn-unreadable"

\* isExistingFileValid is true exactly for a readable, parsable file with
\* the given count: true for count N against N, false against N + 1.
ValidityTable ==
    /\ \A f \in ArtifactFiles : \A n \in 0..MaxSlot : \A readable \in BOOLEAN :
            isExistingFileValid(f, n, readable) <=>
                (f.kind = "tree" /\ readable /\ f.IntervalsPassed = n)
    /\ \A n \in 0..MaxSlot :
            /\ isExistingFileValid(RewardsFile(n), n, TRUE)
            /\ ~isExistingFileValid(RewardsFile(n), n + 1, TRUE)

\* C11: the validity check is true exactly for a file that exists, can be
\* read and parsed and holds the current elapsed count (so a file made with
\* count N is valid against N and not against N + 1); when it is false the
\* Run regenerates and returns nil, and it is false for a matching file
\* only when the file could not be read.
C11_ArtifactValidity ==
    [][/\ ValidityTable
       /\ \A c \in Calls :
            DecidesReuse(c) =>
               /\ ~ArtifactMatches(c) =>
                     /\ bg'["rewards"][c] = "spawned"
                     /\ ret'["rewards"][c] = Nil("generating")
               /\ (ArtifactMatches(c) /\ bg'["rewards"][c] = "spawned") =>
                     WarnsUnreadable(c)]_vars

\* An untrusted Run found the file of its index valid for its count and
\* reused it.
C11_Witness ==
    \E c \in Calls :
        /\ ret["rewards"][c] = Nil("exists")
        /\ loc["rewards"][c].intervalsPassed > 0
        /\ file[loc["rewards"][c].currentIndex] =
              RewardsFile(loc["rewards"][c].intervalsPassed)

\* The kinds of the effects the rewards Run of slot c has had, in order.
Kinds(es) == [i \in 1..Len(es) |-> es[i].kind]

\* C12: after the process stopped with the file of an index on disk and no
\* submission recorded for it, a Run of a trusted node that observes that
\* index with the count the file holds starts no generation: it uploads the
\* stored file and starts its submission, unless the ledger query, the read
\* or the upload fails.
C12_RestartReuse ==
    [][\A c \in Calls :
          LET l == loc["rewards"][c] IN
          (/\ DecidesReuse(c)
           /\ l.currentIndex \in pendingAtStop
           /\ l.currentIndex \notin ledger
           /\ l.nodeTrusted
           /\ ArtifactMatches(c)
           /\ ~WarnsUnreadable(c)) =>
              /\ bg'["rewards"][c] = "none"
              /\ file' = file
              /\ \/ /\ pc'["rewards"][c] = "resubmitting"
                    /\ Kinds(effects'["rewards"][c]) = <<"upload-tree", "submit">>
                    /\ effects'["rewards"][c][2].index = l.currentIndex
                    /\ effects'["rewards"][c][2].intervalsPassed = l.intervalsPassed
                 \/ /\ ret'["rewards"][c] \in {Err("has-submitted"), Err("read")}
                    /\ effects'["rewards"][c] = <<>>
                 \/ /\ ret'["rewards"][c] = Err("upload")
                    /\ Kinds(effects'["rewards"][c]) = <<"upload-tree">>]_vars

\* After a restart that left the file of an index unsubmitted, a Run has
\* uploaded the stored file and is submitting it.
C12_Witness ==
    \E c \in Calls :
        /\ pc["rewards"][c] = "resubmitting"
        /\ loc["rewards"][c].currentIndex \in pendingAtStop
        /\ loc["rewards"][c].currentIndex \notin ledger
        /\ ArtifactMatches(c)
        /\ Kinds(effects["rewards"][c]) = <<"upload-tree", "submit">>

\* The invocation of slot c runs for a node that is not in the oracle set.
Untrusted(c) ==
    loc["rewards"][c] # NoLoc /\ ~loc["rewards"][c].nodeTrusted

\* C13: an invocation with nodeTrusted false never uploads and never starts
\* a submission: at most it generates and writes the file, and when the
\* file of its index is valid for its count it returns without doing
\* anything.
C13_UntrustedNeverSubmits ==
    /\ [](\A c \in Calls :
            (loc["rewards"][c] = NoLoc \/ Untrusted(c)) =>
               /\ \A i \in 1..Len(effects["rewards"][c]) :
                     effects["rewards"][c][i].kind \in {"generate", "warn-unreadable"}
               /\ pc["rewards"][c] # "resubmitting"
               /\ bg["rewards"][c] # "submitting")
    /\ [][\A c \in Calls :
            (DecidesReuse(c) /\ Untrusted(c) /\ ArtifactMatches(c)
             /\ ~WarnsUnreadable(c)) =>
               /\ ret'["rewards"][c] = Nil("exists")
               /\ bg'["rewards"][c] = "none"
               /\ effects'["rewards"][c] = <<>>
               /\ UNCHANGED <<file, ledger>>]_vars

\* The goroutine of an untrusted invocation generated the tree, wrote the
\* file and ended.
C13_Witness ==
    \E c \in Calls :
        /\ Untrusted(c)
        /\ bg["rewards"][c] = "none" /\ finishes["rewards"][c] >= 1
        /\ Kinds(effects["rewards"][c]) = <<"generate">>
        /\ file[loc["rewards"][c].currentIndex] =
              RewardsFile(loc["rewards"][c].intervalsPassed)

\* The invocation of slot c starts a submission attempt in this step.
StartsSubmission(c) ==
    /\ Len(effects'["rewards"][c]) > Len(effects["rewards"][c])
    /\ effects'["rewards"][c][Len(effects'["rewards"][c])].kind = "submit"

\* C14: no submission attempt is started for a reward index the ledger
\* already records this node's submission for, whether the file was reused
\* or had to be generated again.
C14_RecordedNeverResubmitted ==
    [][\A c \in Calls :
          StartsSubmission(c) => loc["rewards"][c].currentIndex \notin ledger]_vars

\* The price goroutine of slot c got its price and the flags in this step.
Reports(c) ==
    /\ bg["price"][c] = "reporting"
    /\ bg'["price"][c] \in {"finish", "submitting"}

\* C15: a price run for block B with price P starts a submission exactly
\* when the flag keyed by (B, P) is false: with that flag true it ends
\* without an attempt, and with only the flag keyed by B true it submits P.
C15_ExactValueFlag ==
    [][\A c \in Calls :
          Reports(c) =>
             LET B == loc["price"][c].blockNumber
                 P == loc'["price"][c].rplPrice
             IN /\ P \in RplPrices
                /\ <<B, P>> \in prices =>
                      /\ bg'["price"][c] = "finish"
                      /\ effects'["price"][c] = effects["price"][c]
                /\ <<B, P>> \notin prices =>
                      /\ bg'["price"][c] = "submitting"
                      /\ effects'["price"][c] =
                            Append(effects["price"][c],
                                   [kind |-> "submit", block |-> B, price |-> P])]_vars

\* A price run is submitting a price for a block this node had submitted
\* another price for.
C15_Witness ==
    \E c \in Calls :
        /\ bg["price"][c] = "submitting"
        /\ <<loc["price"][c].blockNumber>> \in prices
        /\ <<loc["price"][c].blockNumber, loc["price"][c].rplPrice>> \notin prices
        /\ Len(effects["price"][c]) = 1

\* The positions of the effects of the given kind.
Of(es, kind) == {i \in 1..Len(es) : es[i].kind = kind}

\* C16: a Run that finds k >= 1 whole intervals elapsed computes the one
\* span from intervalStart to intervalStart + k * duration; its invocation
\* makes at most one generation pass and at most one submission attempt,
\* both for that span and with the count k, and the file it writes records
\* k.
C16_OnePassForAllIntervals ==
    /\ [][\A c \in Calls :
            LET s == st["rewards"][c]
                k == (StateTime(s) - s.IntervalStart) \div s.IntervalDuration
            IN (/\ pc["rewards"][c] = "entered"
                /\ CheckpointPassed(s)
                /\ pc'["rewards"][c] = "check") =>
                  /\ k >= 1
                  /\ loc'["rewards"][c].intervalsPassed = k
                  /\ loc'["rewards"][c].startTime = s.IntervalStart
                  /\ loc'["rewards"][c].endTime = s.IntervalStart + k * s.IntervalDuration]_vars
    /\ [][\A c \in Calls :
            (bg["rewards"][c] = "generating" /\ bg'["rewards"][c] = "written") =>
               file'[loc["rewards"][c].currentIndex] =
                  RewardsFile(loc["rewards"][c].intervalsPassed)]_vars
    /\ [](\A c \in Calls :
            LET es == effects["rewards"][c]
                l == loc["rewards"][c]
            IN /\ Cardinality(Of(es, "generate")) <= 1
               /\ Cardinality(Of(es, "submit")) <= 1
               /\ \A i \in Of(es, "generate") \cup Of(es, "submit") :
                     /\ l # NoLoc
                     /\ es[i].intervalsPassed = l.intervalsPassed
                     /\ es[i].startTime = l.startTime
                     /\ es[i].endTime = l.endTime
                     /\ es[i].index = l.currentIndex)

\* An invocation that found more than one interval elapsed generated once
\* and started one submission.
C16_Witness ==
    \E c \in Calls :
        /\ loc["rewards"][c] # NoLoc
        /\ loc["rewards"][c].intervalsPassed >= 2
        /\ Kinds(effects["rewards"][c]) =
              <<"generate", "upload-performance", "upload-tree", "submit">>
        /\ file[loc["rewards"][c].currentIndex] =
              RewardsFile(loc["rewards"][c].intervalsPassed)

\* The goroutine of slot c is on its way out after a failure.
Failing(c) ==
    bg["rewards"][c] \in {"handleError", "handleError_return", "handleError_locked",
                          "handleError_return_locked"}

\* C17: a failed generation, upload or submission ends the run through the
\* finish path: Run does not return the failure as an error, the goroutine
\* makes no further upload or submission attempt once it failed, and when
\* it has ended isRunning is false.
C17_FailureGoesIdle ==
    /\ [][\A c \in Calls :
            /\ ret'["rewards"][c] \notin {Err("read"), Err("upload"), Err("submit")}
            /\ (Failing(c) /\ bg'["rewards"][c] # "none") =>
                  effects'["rewards"][c] = effects["rewards"][c]
            /\ (Failing(c) /\ bg'["rewards"][c] = "none") => ~isRunning'["rewards"]]_vars

\* ------------------------------------------------------------------------
\* Relay rotation
\* ------------------------------------------------------------------------

\* The turns of n members over the first 450 blocks: each member in order
\* for 75 blocks, then the first again.
SelectedIndexTable(n) ==
    \A b \in 0..450 :
        /\ IndexToSubmit(b, n) \in 0..(n - 1)
        /\ \A k \in 0..5 : b \in (75 * k)..(75 * k + 74) => IndexToSubmit(b, n) = k % n

\* C18: the index selected to relay at a block is the block number divided
\* by 75 (integer division) modulo the member count: with four members
\* blocks 0..74 select 0, 75..149 select 1 and 300..374 select 0 again; it
\* is always in 0..count-1 and is a function of the block number and the
\* count alone, whatever the member list holds.
C18_SelectedIndex ==
    \A c \in Calls :
        LET turn == relay[c].turn
        IN turn.count > 0 =>
              /\ turn.indexToSubmit = (turn.block \div 75) % turn.count
              /\ turn.indexToSubmit \in 0..(turn.count - 1)
              /\ SelectedIndexTable(turn.count)
              /\ turn.count = 4 =>
                    /\ \A b \in 0..74 : IndexToSubmit(b, turn.count) = 0
                    /\ \A b \in 75..149 : IndexToSubmit(b, turn.count) = 1
                    /\ \A b \in 300..374 : IndexToSubmit(b, turn.count) = 0

\* The rotation has wrapped: four members, block 300, index 0 selected
\* again and the pass made by the member at index 0.
C18_Witness ==
    \E c \in Calls :
        /\ relay[c].turn.count = 4 /\ relay[c].turn.block = 300
        /\ relay[c].turn.indexToSubmit = 0
        /\ relay[c].attempted # <<>>

\* The Run at call slot c makes its relay check in this step.
ChecksRelay(c) == pc["price"][c] = "entered" /\ pc'["price"][c] # "entered" /\ ~crashed'

\* This node's address is at the position of the member list whose turn
\* it is at the block of state s.
IsLeader(s) ==
    \E i \in 1..Len(s.members) :
        /\ s.members[i] = Self
        /\ i - 1 = (s.ElBlockNumber \div 75) % Len(s.members)

\* C19: a relay transaction goes to a target only if the target's staleness
\* flag read true in this pass and the node is the rotation leader for the
\* block; a node that is not the leader attempts no relay, stale targets or
\* not, and updateL2Prices returns no error.
C19_OnlyLeaderRelays ==
    [][\A c \in Calls :
          ChecksRelay(c) =>
             LET s == st["price"][c]
             IN /\ \A k \in 1..Len(relay'[c].attempted) :
                      /\ relay'[c].attempted[k] \in s.stale
                      /\ IsLeader(s)
                /\ (s.fault = "none" /\ Len(s.members) > 0 /\ ~IsLeader(s)) =>
                      /\ relay'[c].attempted = <<>>
                      /\ ~updateL2Prices(s).err]_vars

\* C20: in a pass where this node relays, every stale target is attempted
\* exactly once, whether or not the submissions to other targets failed, and
\* the returned error is the join of the failures of exactly the targets
\* that failed: an error is returned iff some stale target failed.
C20_EveryStaleTargetAttempted ==
    [][\A c \in Calls :
          (ChecksRelay(c) /\ relay'[c].attempted # <<>>) =>
             LET s == st["price"][c]
                 stale == s.stale \cap messengers
                 failures == {t \in stale : s.outcome[t] \in {"error", "fee-error"}}
                 att == relay'[c].attempted
             IN /\ {att[k] : k \in 1..Len(att)} = stale
                /\ Len(att) = Cardinality(stale)
                /\ relay'[c].failed = failures
                /\ updateL2Prices(s).err <=> failures # {}]_vars

\* Three stale targets, the second failed, the first and the third were
\* attempted and did not fail.
C20_Witness ==
    \E c \in Calls :
        LET att == relay[c].attempted
        IN /\ Len(att) = 3
           /\ att[2] \in relay[c].failed
           /\ att[1] \notin relay[c].failed
           /\ att[3] \notin relay[c].failed

\* ------------------------------------------------------------------------
\* Submission timestamps
\* ------------------------------------------------------------------------

\* C21: a call of FindNextSubmissionTimestamp that returns no error returns
\* reference + floor((latest - reference) / interval) * interval, the last
\* interval boundary not after the latest block timestamp: the reference
\* itself while less than one interval has elapsed (latest 1713420045,
\* reference 1713420000, interval 86400 give 1713420000) and reference +
\* interval once one has elapsed (latest 1713510000 gives 1713506400).
C21_LastBoundaryNotAfterLatest ==
    (submission.returned /\ ~submission.err) =>
        LET latest == submission.latestBlockTimestamp
            reference == submission.referenceTimestamp
            interval == submission.submissionIntervalInSeconds
            elapsed == (latest - reference) \div interval
        IN /\ submission.result = reference + elapsed * interval
           /\ submission.result <= latest /\ latest < submission.result + interval
           /\ latest - reference < interval => submission.result = reference
           /\ (reference = 1713420000 /\ interval = 86400) =>
                 /\ latest = 1713420045 => submission.result = 1713420000
                 /\ latest = 1713510000 => submission.result = 1713506400

\* The call of the test's second case has returned 1713506400.
C21_Witness ==
    /\ submission.returned /\ ~submission.err
    /\ submission.latestBlockTimestamp = 1713510000
    /\ submission.referenceTimestamp = 1713420000
    /\ submission.submissionIntervalInSeconds = 86400
    /\ submission.result = 1713506400

\* C22: a call of FindNextSubmissionTimestamp with interval 0, reference 0,
\* latest block timestamp 0, or a reference later than the latest block
\* timestamp returns an error and the zero timestamp.
C22_RejectsUnusableArguments ==
    (/\ submission.returned
     /\ \/ submission.submissionIntervalInSeconds = 0
        \/ submission.referenceTimestamp = 0
        \/ submission.latestBlockTimestamp = 0
        \/ submission.referenceTimestamp > submission.latestBlockTimestamp) =>
        submission.err /\ submission.result = 0

\* A call with non-zero arguments and a reference in the future has
\* returned its error.
C22_Witness ==
    /\ submission.returned /\ submission.err
    /\ submission.submissionIntervalInSeconds # 0
    /\ submission.latestBlockTimestamp # 0
    /\ submission.referenceTimestamp > submission.latestBlockTimestamp

\* ------------------------------------------------------------------------
\* Rotation among the members
\* ------------------------------------------------------------------------

\* The addresses of a member list.
Addresses(members) == {members[i] : i \in 1..Len(members)}

\* C23: for the block and the non-empty member list of a relay step, among
\* the members, each running the step with its own address on the same
\* state, exactly one passes the turn check, and every member computes the
\* same selected index, so no two members relay for the same block.
C23_ExactlyOneMemberPerBlock ==
    \A c \in Calls :
        LET turn == relay[c].turn
        IN turn.count > 0 =>
              /\ Cardinality({n \in Addresses(turn.members) :
                                 MyTurn(turn.members, n, turn.block)}) = 1
              /\ \A n \in Addresses(turn.members) :
                    MyTurn(turn.members, n, turn.block) <=>
                       IndexOf(turn.members, n, 1) = turn.indexToSubmit
              /\ \A n, m \in Addresses(turn.members) :
                    (MyTurn(turn.members, n, turn.block)
                        /\ MyTurn(turn.members, m, turn.block)) => n = m

\* Four members at block 225: this node, the last of the list, has relayed,
\* and the three others do not pass the check.
C23_Witness ==
    \E c \in Calls :
        /\ relay[c].turn.count = 4 /\ relay[c].turn.block = 225
        /\ relay[c].attempted # <<>>
        /\ \A n \in Addresses(relay[c].turn.members) \ {Self} :
              ~MyTurn(relay[c].turn.members, n, relay[c].turn.block)

\* ------------------------------------------------------------------------
\* Retry on a later tick
\* ------------------------------------------------------------------------

\* The submission attempt of invocation c has failed: its goroutine is on
\* its way through handleError, or its Run has returned the failure of the
\* resubmission; for the rewards task on a trusted node whose submission
\* for the index is not recorded.
FailedAttempt(t, c) ==
    IF t = "price"
    THEN bg[t][c] = "handleError"
    ELSE /\ \/ bg[t][c] \in {"handleError", "handleError_return"}
            \/ /\ pc[t][c] = "idle" /\ bg[t][c] = "none"
               /\ ret[t][c] \in {Err("read"), Err("upload"), Err("submit")}
         /\ loc[t][c].nodeTrusted
         /\ loc[t][c].currentIndex \notin ledger

\* A Run has started a new attempt: a goroutine, or the resubmission of the
\* file on disk.
NewAttempt(t) ==
    \E c \in Calls : bg[t][c] = "spawned" \/ pc[t][c] = "resubmitting"

\* C24: after a failed submission attempt, while the scheduler keeps
\* invoking Run and the chain keeps showing the interval (or the price
\* block) as elapsed, finalized and not recorded, a later Run starts a new
\* attempt: the failure does not leave the task unable to start again.
C24_RetryOnLaterTick ==
    \A t \in Tasks : \A c \in Calls : FailedAttempt(t, c) ~> NewAttempt(t)

\* The file written by an earlier run whose submission was not recorded is
\* being resubmitted by a later Run.
C24_Witness ==
    \E c \in Calls :
        /\ pc["rewards"][c] = "resubmitting"
        /\ file[loc["rewards"][c].currentIndex].kind = "tree"
        /\ loc["rewards"][c].currentIndex \notin ledger
        /\ ~isRunning["rewards"]

\* ------------------------------------------------------------------------
\* A failed upload of the rewards tree
\* ------------------------------------------------------------------------

\* The last thing invocation c did to the world is an upload of the rewards
\* tree that was not followed by a submission: the upload failed.
UploadFailed(c) ==
    /\ effects["rewards"][c] # <<>>
    /\ effects["rewards"][c][Len(effects["rewards"][c])].kind = "upload-tree"

\* The upload of the rewards tree by invocation c fails in this step.
UploadFails(c) == ~UploadFailed(c) /\ UploadFailed(c)'

\* C25: when the upload of the rewards tree to Web3.Storage fails, the run
\* ends as a reported failure (handleError, or the error returned by Run)
\* and makes no submission attempt; the rewards tree file on disk is left as
\* it is and stays valid for the same count of elapsed intervals, which is
\* what makes the next tick reuse it.
C25_UploadFailureKeepsArtifact ==
    /\ [](\A c \in Calls :
            UploadFailed(c) =>
               LET es == effects["rewards"][c]
                   e == es[Len(es)]
               IN /\ Of(es, "submit") = {}
                  /\ pc["rewards"][c] # "resubmitting"
                  /\ bg["rewards"][c] # "submitting"
                  /\ \/ ret["rewards"][c] = Err("upload")
                     \/ bg["rewards"][c] \in {"handleError", "handleError_locked"}
                     \/ finishes["rewards"][c] >= 1
                  /\ isExistingFileValid(file[e.index], ToUint64(e.intervalsPassed), TRUE))
    /\ [][\A c \in Calls : UploadFails(c) => file' = file /\ ledger' = ledger]_vars

\* The goroutine's upload of the tree it wrote has failed and handleError
\* has reported it; the file is on disk.
C25_Witness ==
    \E c \in Calls :
        /\ UploadFailed(c)
        /\ Of(effects["rewards"][c], "generate") # {}
        /\ finishes["rewards"][c] >= 1
        /\ file[loc["rewards"][c].currentIndex].kind = "tree"

\* ------------------------------------------------------------------------
\* Termination of the snapshot walk
\* ------------------------------------------------------------------------

\* C26: once finality is satisfied the backward walk from the target slot
\* ends, with a resolved slot or an error, whatever slots were missed, also
\* when no slot at or below the target slot has a block: the Run is never
\* left walking, and the slot it resolves is at or below the slot the walk
\* started from (the counter did not pass below 0 and wrap around).
C26_WalkTerminates ==
    /\ [](\A c \in Calls : pc["rewards"][c] # "walking")
    /\ [][\A c \in Calls :
            (pc["rewards"][c] = "entered" /\ pc'["rewards"][c] = "check") =>
               \E targetSlot \in TargetSlots(EndTime(st["rewards"][c])) :
                  loc'["rewards"][c].snapshotBeaconBlock
                     <= LastSlotOfEpoch(TargetSlotEpoch(targetSlot))]_vars

\* ------------------------------------------------------------------------
\* The gate of the price task
\* ------------------------------------------------------------------------

\* The Run of the price task at slot c ends its checks in this step.
PriceDecides(c) ==
    pc["price"][c] = "entered" /\ pc'["price"][c] # "entered" /\ ~crashed'

\* The epoch of the slot of a block time not before genesis.
EpochOfTime(blockTime) ==
    ((blockTime - BeaconConfig.GenesisTime) \div BeaconConfig.SecondsPerSlot)
        \div BeaconConfig.SlotsPerEpoch

\* The reportable block of state s is after the recorded prices block and
\* the epoch of its time is finalized.
PriceDue(s) ==
    /\ s.LatestReportablePricesBlock > s.PricesBlock
    /\ EpochOfTime(s.blockTime) <= bcFinalized

\* A goroutine of the price task is started only by a Run that passed the
\* checks, for the block the checks were made for.
StartedBehindGate ==
    \A c \in Calls :
        (bg["price"][c] # "spawned" /\ bg'["price"][c] = "spawned") =>
            pc["price"][c] = "check_locked"

\* C27 as stated: the price task goes on to start work for the reportable
\* block B only if B is greater than the recorded prices block and the
\* epoch of the slot of B's time is finalized; in every other case Run
\* returns nil without starting work.
C27_Original ==
    [][/\ StartedBehindGate
       /\ \A c \in Calls :
            (PriceDecides(c)
                /\ st["price"][c].blockTime >= BeaconConfig.GenesisTime) =>
               LET s == st["price"][c]
               IN /\ pc'["price"][c] = "check" => PriceDue(s)
                  /\ ~PriceDue(s) =>
                        /\ pc'["price"][c] = "idle"
                        /\ bg'["price"][c] = bg["price"][c]
                        /\ ~ret'["price"][c].err]_vars

\* C27 (amended): as above, except that in the other cases Run returns nil
\* or, when B is greater than the recorded block and reading the block
\* header or the beacon head failed, the error of that read.
C27_GateBeforeWork ==
    [][/\ StartedBehindGate
       /\ \A c \in Calls :
            (PriceDecides(c)
                /\ st["price"][c].blockTime >= BeaconConfig.GenesisTime) =>
               LET s == st["price"][c]
               IN /\ pc'["price"][c] = "check" =>
                        /\ PriceDue(s)
                        /\ loc'["price"][c].blockNumber = s.LatestReportablePricesBlock
                  /\ ~PriceDue(s) =>
                        /\ pc'["price"][c] = "idle"
                        /\ bg'["price"][c] = bg["price"][c]
                        /\ ret'["price"][c].err =>
                              /\ ret'["price"][c] \in {Err("header"), Err("head")}
                              /\ s.LatestReportablePricesBlock > s.PricesBlock]_vars

\* A Run has returned nil, waiting, for a reportable block after the
\* recorded one whose epoch the beacon chain has not finalized.
C27_Witness ==
    \E c \in Calls :
        /\ ret["price"][c] = Nil("waiting")
        /\ pc["price"][c] = "idle" /\ bg["price"][c] = "none"
        /\ bcFinalized < EpochOfTime(9)

\* ------------------------------------------------------------------------
\* The running flag and the Run that starts nothing
\* ------------------------------------------------------------------------

\* The Run of slot c, having failed to create the rewards pool binding,
\* ends its handleError in this step.
RunClearsFlag(c) ==
    pc["rewards"][c] = "handleError_locked" /\ pc'["rewards"][c] = "idle"

\* C28: a Run of the rewards task never sets isRunning to false while a
\* background generation started by another Run is in flight: a Run that
\* fails before it hands off to a goroutine (the rewards pool binding
\* fails) leaves the flag of a generation in flight as it is.
C28_RunLeavesFlagOfOthers ==
    [][\A c \in Calls :
          (RunClearsFlag(c) /\ \E d \in Calls \ {c} : Executing("rewards", d)) =>
              isRunning'["rewards"] = isRunning["rewards"]]_vars

\* ------------------------------------------------------------------------
\* Relays of a node outside the member list, and the value of a relay
\* ------------------------------------------------------------------------

\* C29: a node whose address is not in the oracle member list submits no
\* relay transaction, whatever the block number and whichever targets are
\* stale: every relay transaction of a pass was sent by a member.
C29_NonMemberNeverRelays ==
    \A c \in Calls : relay[c].txs # <<>> => relay[c].turn.member

\* C30: the ETH value of the relay transaction for a target does not depend
\* on the other targets of the pass: a target with no value of its own
\* (Optimism, Polygon, Base) is sent with the value the transactor came
\* with, whether or not the Arbitrum or the zkSync Era relay ran before it.
C30_ValueIndependentOfOtherTargets ==
    \A c \in Calls :
        \A k \in 1..Len(relay[c].txs) :
            relay[c].txs[k].target \notin {"arbitrum", "zksync"} =>
                relay[c].txs[k].value = "none"

====
